---- MODULE Spec2Model ----
(***************************************************************************)
(* Model of src/worker.js: the RoomDO durable object of one room.          *)
(*                                                                         *)
(* Every async handler of RoomDO (fetch /init, fetch /invite, fetch /ws,   *)
(* and the message and close listeners of an accepted socket) is a process *)
(* with a position.  A handler runs without interruption from one storage  *)
(* await to the next; a storage get or put takes effect in the step in     *)
(* which it completes and its handler resumes.  Awaits on promises that    *)
(* involve no storage operation (await this._broadcast(...)) resolve in    *)
(* the same step.  The source holds no lock of its own: what keeps two     *)
(* handlers of one room apart is the input gate of the durable object,     *)
(* which delivers no request and no socket event to the object while a     *)
(* get or put on this.state.storage is pending (InputGateOpen).  The clock *)
(* and the peers of the sockets are not held by the gate.                  *)
(*                                                                         *)
(* Strings are run-length encoded: a string is a sequence of runs          *)
(* [ch, n], n >= 1, adjacent runs holding different characters.            *)
(***************************************************************************)
EXTENDS Integers, Sequences, FiniteSets, TLC

(***************************************************************************)
(* Bounds of the model.                                                    *)
(***************************************************************************)
MaxConnects == 3
MaxInvites == 2
MaxTicks == 2
MaxMessages == 2
MaxLosses == 1

(***************************************************************************)
(* Strings.                                                                *)
(***************************************************************************)
Null == <<[ch |-> "null", n |-> 0]>>
Str(c, k) == IF k = 0 THEN <<>> ELSE <<[ch |-> c, n |-> k]>>

RECURSIVE StrLen(_)
StrLen(s) == IF s = <<>> THEN 0 ELSE Head(s).n + StrLen(Tail(s))

RECURSIVE TrimStart(_)
TrimStart(s) ==
  IF s = <<>> THEN <<>>
  ELSE IF Head(s).ch = " " THEN TrimStart(Tail(s)) ELSE s

RECURSIVE TrimEnd(_)
TrimEnd(s) ==
  IF s = <<>> THEN <<>>
  ELSE IF s[Len(s)].ch = " " THEN TrimEnd(SubSeq(s, 1, Len(s) - 1)) ELSE s

Trim(s) == TrimEnd(TrimStart(s))

RECURSIVE Slice(_, _)
Slice(s, max) ==
  IF s = <<>> \/ max <= 0 THEN <<>>
  ELSE IF Head(s).n >= max THEN <<[ch |-> Head(s).ch, n |-> max]>>
  ELSE <<Head(s)>> \o Slice(Tail(s), max - Head(s).n)

\* s ?? ""
Coalesce(s) == IF s = Null THEN <<>> ELSE s

\* a || b on strings: null, undefined and "" are falsy
OrElse(a, b) == IF a = Null \/ a = <<>> THEN b ELSE a

clampStr(s, max) == Slice(Trim(Coalesce(s)), max)

\* the literal "Gast"
Gast == <<[ch |-> "G", n |-> 1], [ch |-> "a", n |-> 1],
          [ch |-> "s", n |-> 1], [ch |-> "t", n |-> 1]>>

(***************************************************************************)
(* Values.  A client id (crypto.randomUUID()) is the number of the connect *)
(* request that allocated it; the empty id "" is 0.  A storage value is    *)
(* <<>> when the key is absent (undefined) and <<v>> when it holds v.      *)
(***************************************************************************)
NoId == 0
Undefined == <<>>
Some(v) == <<v>>
INVITE_TTL_MS == 15 * 60 * 1000

\* makeToken(): 18 random bytes in base64url are 24 characters without
\* blanks; the k-th token drawn differs from every other token drawn.
TokenChars == <<"t", "u", "v", "w", "x", "y", "z">>
makeToken(k) == Str(TokenChars[k], 24)

\* a fresh room whose focus carries no time of its own
FreshRoomUnstamped(startedAt) ==
  [startedAt |-> startedAt,
   focus |-> [type |-> "question", content |-> <<>>, author |-> NoId,
              authorName |-> <<>>, ts |-> 0],
   participants |-> <<>>,
   timeline |-> <<[ts |-> startedAt, kind |-> "room_started", by |-> NoId]>>]

\* lines 191-197: the room _getRoom builds when the storage has none
FreshRoom(startedAt) ==
  [startedAt |-> startedAt,
   focus |-> [type |-> "question", content |-> <<>>, author |-> NoId,
              authorName |-> <<>>, ts |-> startedAt],
   participants |-> <<>>,
   timeline |-> <<[ts |-> startedAt, kind |-> "room_started", by |-> NoId]>>]

\* lines 89-95: the room /init puts
InitialRoom(startedAt) ==
  [startedAt |-> startedAt,
   focus |-> [type |-> "question", content |-> <<>>, author |-> NoId,
              authorName |-> <<>>, ts |-> startedAt],
   participants |-> <<>>,
   timeline |-> <<[ts |-> startedAt, kind |-> "room_started", by |-> NoId]>>]

EmptyInvites == [t \in {} |-> 0]

\* (await this.state.storage.get("invites")) || {}
InvitesOr(v) == IF v = Undefined THEN EmptyInvites ELSE v[1]

\* invites[token] = entry
SetInvite(invites, token, entry) ==
  [t \in DOMAIN invites \cup {token} |-> IF t = token THEN entry ELSE invites[t]]

\* a prune that drops every invite
DeleteEveryInvite(invites, token) == EmptyInvites

\* delete invites[token]
DeleteInvite(invites, token) ==
  [t \in DOMAIN invites \ {token} |-> invites[t]]

VARIABLES
  storage,      \* this.state.storage: [room, invites], each <<>> or <<value>>
  sessions,     \* this.sessions: sequence of [id, name, role] in insertion order
  socket,       \* per client id: "none", "open", closed by the peer or lost
                \* ("closed"), closed by the server ("closed1000",
                \* "closed1011"), or "gone" once its close event is delivered
  handlers,     \* the handler invocations in flight, each with its position
  now,          \* Date.now()
  inbox,        \* per client id: the messages its socket was sent, in order
  lastBroadcast,\* the last _broadcast call: message and send attempts
  response,     \* per connect request: 0 (none yet), 101, 401, or 500 when
                \* the handler threw
  issued,       \* the /invite responses returned: [token, expiresAt]
  counters      \* what has happened so far: the requests, ticks and frames,
                \* the mutations put, the broadcasts made, whether the
                \* object has been sent a request at all, and how often the
                \* instance was lost

vars == <<storage, sessions, socket, handlers, now, inbox, lastBroadcast,
          response, issued, counters>>

Clients == 1..MaxConnects

NoBroadcast == [no |-> 0]

Init ==
  /\ storage = [room |-> Undefined, invites |-> Undefined]
  /\ sessions = <<>>
  /\ socket = [c \in Clients |-> "none"]
  /\ handlers = {}
  /\ now = 0
  /\ inbox = [c \in Clients |-> <<>>]
  /\ lastBroadcast = NoBroadcast
  /\ response = [c \in Clients |-> 0]
  /\ issued = {}
  /\ counters = [connects |-> 0, invites |-> 0, ticks |-> 0, messages |-> 0,
                 mutations |-> 0, broadcasts |-> 0, touched |-> FALSE,
                 losses |-> 0]

Replace(h, g) == (handlers \ {h}) \cup {g}

\* an age test that rejects an invite already at the end of its lifetime
ExpiredAtTtl(entry) == now - entry.createdAt >= entry.ttlMs

\* no age test at all
ExpiredNever(entry) == FALSE

\* lines 127-128: age > entry.ttlMs
Expired(entry) == now - entry.createdAt > entry.ttlMs

\* a storage operation issued with allowConcurrency, or an await of anything
\* but this.state.storage, leaves the gate open
InputGateBypassed == TRUE

\* this.state.storage: every handler in flight is waiting for a get or put
\* it issued without allowConcurrency, and while one is pending the object
\* is delivered no further request or event
InputGateOpen == handlers = {}

(***************************************************************************)
(* The clock.  Date.now() does not go back; it advances by one millisecond *)
(* or by the invite lifetime, so that an invite's age reaches exactly its  *)
(* ttl and then exceeds it.                                                *)
(***************************************************************************)
Tick ==
  /\ counters.ticks < MaxTicks
  /\ \E d \in {1, INVITE_TTL_MS} : now' = now + d
  /\ counters' = [counters EXCEPT !.ticks = @ + 1]
  /\ UNCHANGED <<storage, sessions, socket, handlers, inbox, lastBroadcast,
                 response, issued>>

(***************************************************************************)
(* POST /room: the worker draws a fresh room id and sends /init to its     *)
(* object before anyone knows the id, so /init is the first request of the *)
(* room and nothing runs between its two puts.                             *)
(***************************************************************************)
InitRoom ==
  /\ InputGateOpen
  /\ ~counters.touched
  /\ storage' = [room |-> Some(InitialRoom(now)), invites |-> Some(EmptyInvites)]
  /\ counters' = [counters EXCEPT !.touched = TRUE]
  /\ UNCHANGED <<sessions, socket, handlers, now, inbox, lastBroadcast,
                 response, issued>>

(***************************************************************************)
(* POST /invite.                                                           *)
(***************************************************************************)
InviteStart ==
  /\ InputGateOpen
  /\ counters.invites < MaxInvites
  /\ handlers' = handlers \cup
       {[kind |-> "invite", pc |-> "get_invites",
         token |-> makeToken(counters.invites + 1)]}
  /\ counters' = [counters EXCEPT !.invites = @ + 1, !.touched = TRUE]
  /\ UNCHANGED <<storage, sessions, socket, now, inbox, lastBroadcast,
                 response, issued>>

InviteGot(h) ==
  /\ h.kind = "invite" /\ h.pc = "get_invites"
  /\ LET invites == SetInvite(InvitesOr(storage.invites), h.token,
                              [createdAt |-> now, ttlMs |-> INVITE_TTL_MS])
     IN handlers' = Replace(h, [kind |-> "invite", pc |-> "put_invites",
                                token |-> h.token, invites |-> invites])
  /\ UNCHANGED <<storage, sessions, socket, now, inbox, lastBroadcast,
                 response, issued, counters>>

InvitePut(h) ==
  /\ h.kind = "invite" /\ h.pc = "put_invites"
  /\ storage' = [storage EXCEPT !.invites = Some(h.invites)]
  /\ issued' = issued \cup
       {[token |-> h.token, expiresAt |-> now + INVITE_TTL_MS]}
  /\ handlers' = handlers \ {h}
  /\ UNCHANGED <<sessions, socket, now, inbox, lastBroadcast, response,
                 counters>>

(***************************************************************************)
(* RoomDO helpers.                                                         *)
(***************************************************************************)
\* _getRoom: the room a handler holds when its await of _getRoom() returns:
\* the fresh room it has just put (h.fresh), else the room it read.
RoomOf(h) == IF h.fresh # Undefined THEN h.fresh[1] ELSE storage.room[1]

\* _getRoom returns: its get has completed with a room, or its put of the
\* fresh room has completed
GetRoomReturns(h) == h.fresh # Undefined \/ storage.room # Undefined

\* the storage once _getRoom has returned to h
StorageAfterGetRoom(h) ==
  IF h.fresh # Undefined THEN [storage EXCEPT !.room = h.fresh] ELSE storage

\* _publicState
PublicState(room) ==
  [startedAt |-> room.startedAt, participants |-> room.participants,
   focus |-> room.focus]

\* ws.send(data) inside try/catch: throws on a socket that is not open
SendOk(id) == socket[id] = "open"

\* a loop without the try/catch: the first send that throws ends it
RECURSIVE DeliverUntilThrow(_, _, _)
DeliverUntilThrow(sent, targets, message) ==
  IF targets = <<>> THEN sent
  ELSE LET id == Head(targets).id
       IN IF SendOk(id)
            THEN DeliverUntilThrow(
                   [box |-> [sent.box EXCEPT ![id] = Append(@, message)],
                    attempts |-> Append(sent.attempts, [to |-> id, ok |-> TRUE])],
                   Tail(targets), message)
            ELSE [box |-> sent.box,
                  attempts |-> Append(sent.attempts, [to |-> id, ok |-> FALSE])]

\* the loop of _broadcast over the sessions still to be visited: sent is
\* [box, attempts], the inboxes and the sends tried so far
RECURSIVE Deliver(_, _, _)
Deliver(sent, targets, message) ==
  IF targets = <<>> THEN sent
  ELSE LET id == Head(targets).id
       IN Deliver([box |-> IF SendOk(id)
                             THEN [sent.box EXCEPT ![id] = Append(@, message)]
                             ELSE sent.box,
                   attempts |-> Append(sent.attempts,
                                       [to |-> id, ok |-> SendOk(id)])],
                  Tail(targets), message)

\* _broadcast: the inboxes after it and the sends it tried, in the order of
\* this.sessions
Broadcast(message) ==
  Deliver([box |-> inbox, attempts |-> <<>>], sessions, message)

\* a close listener without this.sessions.delete
RemoveSessionForgotten(id) == sessions

RemoveSession(id) == SelectSeq(sessions, LAMBDA s : s.id # id)

SessionName(id) ==
  IF \E i \in 1..Len(sessions) : sessions[i].id = id
    THEN LET s == sessions[CHOOSE i \in 1..Len(sessions) : sessions[i].id = id]
         IN OrElse(s.name, <<>>)
    ELSE <<>>

\* an _addParticipant that logs the join and leaves the roster alone
AddParticipantUnlisted(room, p) ==
  [room EXCEPT !.timeline = Append(@, [ts |-> now, kind |-> "join", by |-> p.id])]

\* _addParticipant between its get and its put
AddParticipant(room, p) ==
  [room EXCEPT !.participants = Append(@, p),
               !.timeline = Append(@, [ts |-> now, kind |-> "join", by |-> p.id])]

\* a removal that lists the survivors anew, last joined first
RECURSIVE Reverse(_)
Reverse(q) == IF q = <<>> THEN <<>> ELSE Append(Reverse(Tail(q)), Head(q))
RemoveParticipantResorted(room, id) ==
  [room EXCEPT !.participants = Reverse(SelectSeq(@, LAMBDA x : x.id # id)),
               !.timeline = Append(@, [ts |-> now, kind |-> "leave", by |-> id])]

\* a removal that also takes the events of the departed out of the timeline
RemoveParticipantErased(room, id) ==
  [room EXCEPT !.participants = SelectSeq(@, LAMBDA x : x.id # id),
               !.timeline = Append(SelectSeq(@, LAMBDA e : e.by # id),
                                   [ts |-> now, kind |-> "leave", by |-> id])]

\* _removeParticipant between its get and its put
RemoveParticipant(room, id) ==
  [room EXCEPT !.participants = SelectSeq(@, LAMBDA x : x.id # id),
               !.timeline = Append(@, [ts |-> now, kind |-> "leave", by |-> id])]

\* a _setFocus that leaves the timeline alone
SetFocusUnlogged(room, byId, type, content) ==
  [room EXCEPT !.focus = [type |-> type, content |-> content, author |-> byId,
                          authorName |-> SessionName(byId), ts |-> now]]

\* _setFocus between its get and its put
SetFocus(room, byId, type, content) ==
  [room EXCEPT !.focus = [type |-> type, content |-> content, author |-> byId,
                          authorName |-> SessionName(byId), ts |-> now],
               !.timeline = Append(@, [ts |-> now, kind |-> "set_focus",
                                       by |-> byId])]

(***************************************************************************)
(* _getRoom on a room without a record: the get returned undefined, the    *)
(* fresh room is built and its put is awaited.                             *)
(***************************************************************************)
RoomPcs == {"add_get", "snapshot_get", "presence_get", "focus_get",
            "getfocus_get", "remove_get", "left_get"}

GetRoomLazy(h) ==
  /\ h.pc \in RoomPcs
  /\ h.fresh = Undefined
  /\ storage.room = Undefined
  /\ handlers' = Replace(h, [h EXCEPT !.fresh = Some(FreshRoom(now))])
  /\ UNCHANGED <<storage, sessions, socket, now, inbox, lastBroadcast,
                 response, issued, counters>>

(***************************************************************************)
(* GET /ws: the connect handler.                                           *)
(***************************************************************************)
TokenInputs ==
  {Null, Str(" ", 2), Str("g", 24)}
    \cup {i.token : i \in issued}
    \cup {Str(" ", 1) \o i.token \o Str(" ", 1) : i \in issued}
\* name and role of the join request: a missing name, a role that is too long
IdentityInputs == {[name |-> Null, role |-> Str(" ", 1) \o Str("H", 21)]}

ConnectStart ==
  /\ InputGateOpen
  /\ counters.connects < MaxConnects
  /\ \E rawToken \in TokenInputs, identity \in IdentityInputs :
       LET id == counters.connects + 1
           token == clampStr(rawToken, 200)
           name == OrElse(clampStr(OrElse(identity.name, Gast), 40), Gast)
           role == OrElse(clampStr(OrElse(identity.role, Gast), 20), Gast)
       IN IF token = <<>>
            THEN /\ response' = [response EXCEPT ![id] = 401]
                 /\ UNCHANGED handlers
            ELSE /\ handlers' = handlers \cup
                      {[kind |-> "ws", pc |-> "get_invites", id |-> id,
                        token |-> token, name |-> name, role |-> role]}
                 /\ UNCHANGED response
  /\ counters' = [counters EXCEPT !.connects = @ + 1, !.touched = TRUE]
  /\ UNCHANGED <<storage, sessions, socket, now, inbox, lastBroadcast, issued>>

\* the get of "invites" completes: lines 123-146 up to the get of _getRoom
ConnectGotInvites(h) ==
  /\ h.kind = "ws" /\ h.pc = "get_invites"
  /\ LET invites == InvitesOr(storage.invites)
     IN IF h.token \notin DOMAIN invites
          THEN /\ response' = [response EXCEPT ![h.id] = 401]
               /\ handlers' = handlers \ {h}
               /\ UNCHANGED <<sessions, socket>>
          ELSE IF Expired(invites[h.token])
          THEN /\ handlers' = Replace(h,
                    [kind |-> "ws", pc |-> "put_invites", id |-> h.id,
                     token |-> h.token,
                     invites |-> DeleteInvite(invites, h.token)])
               /\ UNCHANGED <<response, sessions, socket>>
          ELSE /\ socket' = [socket EXCEPT ![h.id] = "open"]
               /\ sessions' = Append(sessions,
                    [id |-> h.id, name |-> h.name, role |-> h.role])
               /\ handlers' = Replace(h,
                    [kind |-> "ws", pc |-> "add_get", id |-> h.id,
                     fresh |-> Undefined,
                     p |-> [id |-> h.id, name |-> h.name, role |-> h.role,
                            joinedAt |-> now]])
               /\ UNCHANGED response
  /\ UNCHANGED <<storage, now, inbox, lastBroadcast, issued, counters>>

\* the put of the pruned invites completes: lines 130-131
ConnectPruned(h) ==
  /\ h.kind = "ws" /\ h.pc = "put_invites"
  /\ storage' = [storage EXCEPT !.invites = Some(h.invites)]
  /\ response' = [response EXCEPT ![h.id] = 401]
  /\ handlers' = handlers \ {h}
  /\ UNCHANGED <<sessions, socket, now, inbox, lastBroadcast, issued, counters>>

\* _addParticipant: _getRoom returns, the room is changed, its put is awaited
AddParticipantGet(h) ==
  /\ h.pc = "add_get"
  /\ GetRoomReturns(h)
  /\ storage' = StorageAfterGetRoom(h)
  /\ handlers' = Replace(h,
       [kind |-> "ws", pc |-> "add_put", id |-> h.id, p |-> h.p,
        room |-> AddParticipant(RoomOf(h), h.p)])
  /\ UNCHANGED <<sessions, socket, now, inbox, lastBroadcast, response,
                 issued, counters>>

\* the put of _addParticipant completes; line 149 awaits _publicState
AddParticipantPut(h) ==
  /\ h.pc = "add_put"
  /\ storage' = [storage EXCEPT !.room = Some(h.room)]
  /\ handlers' = Replace(h,
       [kind |-> "ws", pc |-> "snapshot_get", id |-> h.id, p |-> h.p,
        fresh |-> Undefined])
  /\ counters' = [counters EXCEPT !.mutations = @ + 1]
  /\ UNCHANGED <<sessions, socket, now, inbox, lastBroadcast, response, issued>>

\* line 149: the private snapshot is sent; line 150 awaits _publicState
ConnectSnapshot(h) ==
  /\ h.pc = "snapshot_get"
  /\ GetRoomReturns(h)
  /\ storage' = StorageAfterGetRoom(h)
  /\ inbox' = [inbox EXCEPT ![h.id] =
       Append(@, [kind |-> "presence", payload |-> PublicState(RoomOf(h))])]
  /\ handlers' = Replace(h,
       [kind |-> "ws", pc |-> "presence_get", id |-> h.id, p |-> h.p,
        fresh |-> Undefined])
  /\ UNCHANGED <<sessions, socket, now, lastBroadcast, response, issued,
                 counters>>

\* line 150: the broadcast; lines 152-182: the listeners, the 101 response
ConnectBroadcast(h) ==
  /\ h.pc = "presence_get"
  /\ GetRoomReturns(h)
  /\ storage' = StorageAfterGetRoom(h)
  /\ LET message == [kind |-> "presence", payload |-> PublicState(RoomOf(h))]
         done == Broadcast(message)
     IN /\ inbox' = done.box
        /\ lastBroadcast' = [no |-> counters.broadcasts + 1,
                             message |-> message,
                             attempts |-> done.attempts, by |-> h.id,
                             cause |-> "join"]
  /\ response' = [response EXCEPT ![h.id] = 101]
  /\ handlers' = handlers \ {h}
  /\ counters' = [counters EXCEPT !.broadcasts = @ + 1]
  /\ UNCHANGED <<sessions, socket, now, issued>>

(***************************************************************************)
(* The message listener of an accepted socket.  An inbound frame is        *)
(* [json, kind, payload, type, content]: json is FALSE when JSON.parse     *)
(* throws, "undefined" stands for a missing kind or type, payload is FALSE *)
(* when msg.payload is missing.                                            *)
(***************************************************************************)
Frame(kind, payload, type, content) ==
  [json |-> TRUE, kind |-> kind, payload |-> payload, type |-> type,
   content |-> content]

Frames ==
  {[json |-> FALSE, kind |-> "undefined", payload |-> FALSE,
    type |-> "undefined", content |-> Null],
   Frame("undefined", TRUE, "text", Str("a", 1)),
   Frame("ping", FALSE, "undefined", Null),
   Frame("leave", FALSE, "undefined", Null),
   Frame("set_focus", FALSE, "undefined", Null),
   Frame("set_focus", TRUE, "text", Str(" ", 1) \o Str("a", 4001)),
   Frame("set_focus", TRUE, "poll", Str("b", 2)),
   Frame("set_focus", TRUE, "undefined", Null)}

\* a type taken from the payload as it comes
FocusTypeVerbatim(frame) == IF frame.payload THEN frame.type ELSE "question"

\* lines 158-160
FocusType(frame) ==
  IF frame.payload /\ frame.type = "text" THEN "text" ELSE "question"
FocusContent(frame) ==
  clampStr(OrElse(IF frame.payload THEN frame.content ELSE Null, <<>>), 4000)

\* a listener that answers a frame it does not handle with an error message
MessageDroppedWithReply(c) ==
  /\ InputGateOpen
  /\ socket[c] = "open" /\ response[c] = 101
  /\ counters.messages < MaxMessages
  /\ inbox' = [inbox EXCEPT ![c] = Append(@, [kind |-> "error"])]
  /\ counters' = [counters EXCEPT !.messages = @ + 1]
  /\ UNCHANGED <<storage, sessions, socket, handlers, now, lastBroadcast,
                 response, issued>>

\* lines 153-155 and the fall through of lines 157-169: a frame arrives on
\* an open socket whose listeners are attached
MessageDropped(c) ==
  /\ InputGateOpen
  /\ socket[c] = "open" /\ response[c] = 101
  /\ counters.messages < MaxMessages
  /\ \E frame \in Frames :
       ~frame.json \/ frame.kind \notin {"set_focus", "leave"}
  /\ counters' = [counters EXCEPT !.messages = @ + 1]
  /\ UNCHANGED <<storage, sessions, socket, handlers, now, inbox,
                 lastBroadcast, response, issued>>

\* lines 157-161 up to the get of _getRoom
MessageSetFocus(c) ==
  /\ InputGateOpen
  /\ socket[c] = "open" /\ response[c] = 101
  /\ counters.messages < MaxMessages
  /\ \E frame \in Frames :
       /\ frame.json /\ frame.kind = "set_focus"
       /\ handlers' = handlers \cup
            {[kind |-> "message", pc |-> "focus_get", id |-> c,
              no |-> counters.messages + 1, fresh |-> Undefined,
              msg |-> frame,
              type |-> FocusType(frame), content |-> FocusContent(frame)]}
  /\ counters' = [counters EXCEPT !.messages = @ + 1]
  /\ UNCHANGED <<storage, sessions, socket, now, inbox, lastBroadcast,
                 response, issued>>

\* a leave branch that also takes the session out of the hub itself
MessageLeaveUnregisters(c) ==
  /\ InputGateOpen
  /\ socket[c] = "open" /\ response[c] = 101
  /\ counters.messages < MaxMessages
  /\ socket' = [socket EXCEPT ![c] = "closed1000"]
  /\ sessions' = SelectSeq(sessions, LAMBDA x : x.id # c)
  /\ counters' = [counters EXCEPT !.messages = @ + 1]
  /\ UNCHANGED <<storage, handlers, now, inbox, lastBroadcast, response,
                 issued>>

\* lines 166-169: server.close(1000, "bye")
MessageLeave(c) ==
  /\ InputGateOpen
  /\ socket[c] = "open" /\ response[c] = 101
  /\ counters.messages < MaxMessages
  /\ \E frame \in Frames : frame.json /\ frame.kind = "leave"
  /\ socket' = [socket EXCEPT ![c] = "closed1000"]
  /\ counters' = [counters EXCEPT !.messages = @ + 1]
  /\ UNCHANGED <<storage, sessions, handlers, now, inbox, lastBroadcast,
                 response, issued>>

\* _setFocus: _getRoom returns, the focus is overwritten, the put is awaited
SetFocusGet(h) ==
  /\ h.pc = "focus_get"
  /\ GetRoomReturns(h)
  /\ storage' = StorageAfterGetRoom(h)
  /\ handlers' = Replace(h,
       [kind |-> "message", pc |-> "focus_put", id |-> h.id, no |-> h.no,
        msg |-> h.msg,
        room |-> SetFocus(RoomOf(h), h.id, h.type, h.content)])
  /\ UNCHANGED <<sessions, socket, now, inbox, lastBroadcast, response,
                 issued, counters>>

\* the put of _setFocus completes; line 162 awaits _getFocus.  wrote keeps
\* the focus this handler has put, for the properties below.
SetFocusPut(h) ==
  /\ h.pc = "focus_put"
  /\ storage' = [storage EXCEPT !.room = Some(h.room)]
  /\ handlers' = Replace(h,
       [kind |-> "message", pc |-> "getfocus_get", id |-> h.id, no |-> h.no,
        fresh |-> Undefined, wrote |-> h.room.focus])
  /\ counters' = [counters EXCEPT !.mutations = @ + 1]
  /\ UNCHANGED <<sessions, socket, now, inbox, lastBroadcast, response, issued>>

\* line 162: _getFocus returns, the focus message is broadcast
FocusBroadcast(h) ==
  /\ h.pc = "getfocus_get"
  /\ GetRoomReturns(h)
  /\ storage' = StorageAfterGetRoom(h)
  /\ LET message == [kind |-> "focus", payload |-> RoomOf(h).focus]
         done == Broadcast(message)
     IN /\ inbox' = done.box
        /\ lastBroadcast' = [no |-> counters.broadcasts + 1,
                             message |-> message,
                             attempts |-> done.attempts, by |-> h.id,
                             cause |-> "set_focus", wrote |-> h.wrote]
  /\ handlers' = handlers \ {h}
  /\ counters' = [counters EXCEPT !.broadcasts = @ + 1]
  /\ UNCHANGED <<sessions, socket, now, response, issued>>

(***************************************************************************)
(* The close listener of an accepted socket.                               *)
(***************************************************************************)
\* the peer closes, or the connection is lost: sends to the socket throw
PeerClose(c) ==
  /\ socket[c] = "open" /\ response[c] = 101
  /\ socket' = [socket EXCEPT ![c] = "closed"]
  /\ UNCHANGED <<storage, sessions, handlers, now, inbox, lastBroadcast,
                 response, issued, counters>>

\* lines 178-180: the error event of an accepted socket whose listeners are
\* attached: server.close(1011, "error"); on a socket that is closed
\* already the close changes nothing
SocketError(c) ==
  /\ InputGateOpen
  /\ response[c] = 101
  /\ socket[c] = "open"
  /\ socket' = [socket EXCEPT ![c] = "closed1011"]
  /\ UNCHANGED <<storage, sessions, handlers, now, inbox, lastBroadcast,
                 response, issued, counters>>

\* the close event: lines 173-174 up to the get of _getRoom
CloseEvent(c) ==
  /\ InputGateOpen
  /\ socket[c] \in {"closed", "closed1000", "closed1011"}
  /\ socket' = [socket EXCEPT ![c] = "gone"]
  /\ sessions' = RemoveSession(c)
  /\ handlers' = handlers \cup
       {[kind |-> "close", pc |-> "remove_get", id |-> c, fresh |-> Undefined]}
  /\ UNCHANGED <<storage, now, inbox, lastBroadcast, response, issued, counters>>

\* _removeParticipant: _getRoom returns, the room is changed, the put awaited
RemoveParticipantGet(h) ==
  /\ h.pc = "remove_get"
  /\ GetRoomReturns(h)
  /\ storage' = StorageAfterGetRoom(h)
  /\ handlers' = Replace(h,
       [kind |-> "close", pc |-> "remove_put", id |-> h.id,
        room |-> RemoveParticipant(RoomOf(h), h.id)])
  /\ UNCHANGED <<sessions, socket, now, inbox, lastBroadcast, response,
                 issued, counters>>

\* the put of _removeParticipant completes; line 175 awaits _publicState
RemoveParticipantPut(h) ==
  /\ h.pc = "remove_put"
  /\ storage' = [storage EXCEPT !.room = Some(h.room)]
  /\ handlers' = Replace(h,
       [kind |-> "close", pc |-> "left_get", id |-> h.id, fresh |-> Undefined])
  /\ counters' = [counters EXCEPT !.mutations = @ + 1]
  /\ UNCHANGED <<sessions, socket, now, inbox, lastBroadcast, response, issued>>

\* line 175: the presence broadcast of the close listener
CloseBroadcast(h) ==
  /\ h.pc = "left_get"
  /\ GetRoomReturns(h)
  /\ storage' = StorageAfterGetRoom(h)
  /\ LET message == [kind |-> "presence", payload |-> PublicState(RoomOf(h))]
         done == Broadcast(message)
     IN /\ inbox' = done.box
        /\ lastBroadcast' = [no |-> counters.broadcasts + 1,
                             message |-> message,
                             attempts |-> done.attempts, by |-> h.id,
                             cause |-> "leave"]
  /\ handlers' = handlers \ {h}
  /\ counters' = [counters EXCEPT !.broadcasts = @ + 1]
  /\ UNCHANGED <<sessions, socket, now, response, issued>>

(***************************************************************************)
(* A put of the room rejects (the put of a mutation, lines 216, 223, 231,  *)
(* or the put of the fresh room, line 198): the await throws, nothing in   *)
(* RoomDO catches it, and the handler ends there.  The storage is as it    *)
(* was; what the handler had done to this.sessions stays done; a connect   *)
(* is answered with an error instead of the socket.                        *)
(***************************************************************************)
PutFails(h) ==
  /\ \/ h.pc \in {"add_put", "focus_put", "remove_put"}
     \/ h.pc \in RoomPcs /\ h.fresh # Undefined
  /\ handlers' = handlers \ {h}
  /\ response' = IF h.kind = "ws" THEN [response EXCEPT ![h.id] = 500]
                                 ELSE response
  /\ UNCHANGED <<storage, sessions, socket, now, inbox, lastBroadcast, issued,
                 counters>>

(***************************************************************************)
(* The instance is lost (eviction, restart) and the next request           *)
(* constructs a new RoomDO over the same storage: lines 78-82.  The new    *)
(* instance has an empty this.sessions and none of the old handlers and    *)
(* listeners; the sockets the old instance had accepted are lost with it.  *)
(* A put that had not completed has not happened.                          *)
(***************************************************************************)
Connected == {"open", "closed", "closed1000", "closed1011"}

\* a room whose state is held in the instance only
ActorLostWithStorage ==
  /\ counters.losses < MaxLosses
  /\ sessions' = <<>>
  /\ handlers' = {}
  /\ socket' = [c \in Clients |->
                  IF socket[c] \in Connected THEN "lost" ELSE socket[c]]
  /\ storage' = [room |-> Undefined, invites |-> Undefined]
  /\ counters' = [counters EXCEPT !.losses = @ + 1]
  /\ UNCHANGED <<now, inbox, lastBroadcast, response, issued>>

ActorLost ==
  /\ counters.losses < MaxLosses
  /\ sessions' = <<>>
  /\ handlers' = {}
  /\ socket' = [c \in Clients |->
                  IF socket[c] \in Connected THEN "lost" ELSE socket[c]]
  /\ counters' = [counters EXCEPT !.losses = @ + 1]
  /\ UNCHANGED <<storage, now, inbox, lastBroadcast, response, issued>>

(***************************************************************************)
(* The room: every request, event and handler step.                        *)
(***************************************************************************)
Issue ==
  \/ InviteStart
  \/ \E h \in handlers : InviteGot(h) \/ InvitePut(h)

Join ==
  \/ InitRoom
  \/ ConnectStart
  \/ \E h \in handlers :
       \/ GetRoomLazy(h)
       \/ ConnectGotInvites(h)
       \/ AddParticipantGet(h)
       \/ AddParticipantPut(h)
       \/ ConnectSnapshot(h)
       \/ ConnectBroadcast(h)

Expire ==
  \/ Tick
  \/ \E h \in handlers : ConnectPruned(h)

Focus ==
  \/ \E c \in Clients : MessageDropped(c) \/ MessageSetFocus(c)
  \/ \E h \in handlers : SetFocusGet(h) \/ SetFocusPut(h) \/ FocusBroadcast(h)

Leave ==
  \/ \E c \in Clients : PeerClose(c) \/ CloseEvent(c)
  \/ \E h \in handlers :
       RemoveParticipantGet(h) \/ RemoveParticipantPut(h) \/ CloseBroadcast(h)

\* a put of the room rejects
Failure == \E h \in handlers : PutFails(h)

\* the server closes a socket
Goodbye == \E c \in Clients : MessageLeave(c) \/ SocketError(c)

Next ==
  \/ Issue
  \/ Join
  \/ Expire
  \/ Focus
  \/ Leave
  \/ Goodbye
  \/ Failure
  \/ ActorLost

Spec == Init /\ [][Next]_vars

\* the room while the clock stands still and nobody sends a frame or leaves
SpecJoin == Init /\ [][Issue \/ Join]_vars

\* invites issued, presented and expiring
SpecAuth == Init /\ [][Issue \/ Join \/ Expire]_vars

\* joining and leaving
SpecPresence == Init /\ [][Issue \/ Join \/ Leave]_vars

\* joining and setting the focus
SpecFocus == Init /\ [][Issue \/ Join \/ Focus]_vars

\* a single invite is issued
IssueOne ==
  \/ InviteStart /\ counters.invites = 0
  \/ \E h \in handlers : InviteGot(h) \/ InvitePut(h)

\* a room created by /init or by its first _getRoom, at any time
SpecCreate == Init /\ [][IssueOne \/ Join \/ Tick]_vars

\* every mutation of the room: joining, setting the focus and leaving
SpecRoom == Init /\ [][IssueOne \/ Join \/ Focus \/ Leave]_vars

\* joining and leaving while puts of the room may reject
SpecFailure == Init /\ [][IssueOne \/ Join \/ Leave \/ Failure]_vars

\* invites and connects before and after the instance is lost
SpecLoss == Init /\ [][IssueOne \/ Join \/ Expire \/ ActorLost]_vars

\* the handlers that are in flight go on when their storage operation
\* completes, and a close event that is waiting is delivered
HandlerStep ==
  \E h \in handlers :
    \/ InviteGot(h) \/ InvitePut(h)
    \/ GetRoomLazy(h)
    \/ ConnectGotInvites(h)
    \/ AddParticipantGet(h) \/ AddParticipantPut(h)
    \/ ConnectSnapshot(h) \/ ConnectBroadcast(h)
    \/ RemoveParticipantGet(h) \/ RemoveParticipantPut(h) \/ CloseBroadcast(h)

Fairness ==
  /\ WF_vars(HandlerStep)
  /\ \A c \in Clients : SF_vars(CloseEvent(c))

\* joining, and leaving by a leave frame, a socket error or a close
SpecGoodbye ==
  Init /\ [][IssueOne \/ Join \/ Leave \/ Goodbye]_vars /\ Fairness

(***************************************************************************)
(* What the properties below speak of.                                     *)
(***************************************************************************)
Ids(ps) == [i \in 1..Len(ps) |-> ps[i].id]
Range(f) == {f[i] : i \in DOMAIN f}
HasRoom == storage.room # Undefined
Room == storage.room[1]
Quiescent == handlers = {}

\* the connect requests answered 101, and those whose close event has been
\* delivered
Joined == {c \in Clients : response[c] = 101}
Departed == {c \in Clients : socket[c] = "gone"}

EventsOf(kind, c) ==
  {i \in 1..Len(Room.timeline) :
     Room.timeline[i].kind = kind /\ Room.timeline[i].by = c}

Survivors == Joined \ Departed
JoinIndex(c) == CHOOSE i \in EventsOf("join", c) : TRUE

C2_RosterIsSurvivorsInJoinOrder ==
  Quiescent =>
    IF HasRoom
      THEN /\ Len(Room.participants) = Cardinality(Survivors)
           /\ Range(Ids(Room.participants)) = Survivors
           /\ \A i, j \in 1..Len(Room.participants) :
                i < j => JoinIndex(Room.participants[i].id)
                           < JoinIndex(Room.participants[j].id)
      ELSE Joined = {}

C2_Witness ==
  /\ Quiescent
  /\ HasRoom
  /\ Joined = {1, 2, 3}
  /\ Departed = {2}
  /\ Ids(Room.participants) = <<1, 3>>

(***************************************************************************)
(* C3: the put of _addParticipant, _removeParticipant or _setFocus appends *)
(* one event of kind join, leave or set_focus by the session concerned to  *)
(* the persisted timeline together with its change of the roster or focus, *)
(* nothing else changes a persisted room, and so a room on which N         *)
(* mutations have been put holds N + 1 events, the first one room_started. *)
(***************************************************************************)
MutationPcs == {"add_put", "focus_put", "remove_put"}

C3_Put(h) ==
  LET old == storage.room[1]
      new == storage'.room[1]
      kind == CASE h.pc = "add_put" -> "join"
                [] h.pc = "focus_put" -> "set_focus"
                [] h.pc = "remove_put" -> "leave"
  IN /\ HasRoom
     /\ Len(new.timeline) = Len(old.timeline) + 1
     /\ SubSeq(new.timeline, 1, Len(old.timeline)) = old.timeline
     /\ new.timeline[Len(new.timeline)].kind = kind
     /\ new.timeline[Len(new.timeline)].by = h.id
     /\ new.startedAt = old.startedAt
     /\ CASE kind = "join" ->
               /\ new.participants = Append(old.participants, h.p)
               /\ new.focus = old.focus
          [] kind = "leave" ->
               /\ Range(Ids(new.participants))
                    = Range(Ids(old.participants)) \ {h.id}
               /\ new.focus = old.focus
          [] kind = "set_focus" ->
               /\ new.participants = old.participants
               /\ new.focus.author = h.id

C3_Step ==
  /\ \A h \in handlers : (h.pc \in MutationPcs /\ h \notin handlers') => C3_Put(h)
  /\ (HasRoom /\ storage'.room # storage.room) =>
       \E h \in handlers : h.pc \in MutationPcs /\ h \notin handlers'

C3_Length ==
  HasRoom => /\ Len(Room.timeline) = counters.mutations + 1
             /\ Room.timeline[1].kind = "room_started"
             /\ Room.timeline[1].by = NoId

C3_OneEventPerMutation == [][C3_Step]_vars /\ []C3_Length

C3_Witness ==
  /\ Quiescent
  /\ HasRoom
  /\ counters.mutations = 3
  /\ {e.kind : e \in Range(Room.timeline)}
       = {"room_started", "join", "set_focus", "leave"}

(***************************************************************************)
(* C4: the connect handler accepts the connection exactly when the token   *)
(* is in the invite set it has read and now - createdAt <= ttlMs, the age  *)
(* ttlMs included; accepting leaves the invite set as it is, then and in   *)
(* every later step of the handler, so the token is accepted again.        *)
(***************************************************************************)
Invites == InvitesOr(storage.invites)
ValidNow(token) ==
  /\ token \in DOMAIN Invites
  /\ now - Invites[token].createdAt <= Invites[token].ttlMs

Validating(h) == h.kind = "ws" /\ h.pc = "get_invites" /\ h \notin handlers'

C4_Step ==
  \A h \in handlers :
    /\ Validating(h) =>
         /\ socket'[h.id] = "open" <=> ValidNow(h.token)
         /\ ValidNow(h.token) =>
              /\ storage'.invites = storage.invites
              /\ h.id \in Range(Ids(sessions'))
    /\ (h.kind = "ws" /\ h.pc \notin {"get_invites", "put_invites"}
          /\ h \notin handlers') =>
         storage'.invites = storage.invites

IssuedTokens == {i.token : i \in issued}

C5_Step ==
  /\ \A h \in handlers :
       /\ (Validating(h) /\ h.token \in DOMAIN Invites /\ ~ValidNow(h.token)) =>
            /\ socket'[h.id] = "none"
            /\ \E g \in handlers' : g.id = h.id /\ g.pc = "put_invites"
       /\ (h.kind = "ws" /\ h.pc = "put_invites" /\ h \notin handlers') =>
            /\ response'[h.id] = 401
            /\ storage'.invites # Undefined
            /\ DOMAIN Invites' = DOMAIN Invites \ {h.token}
            /\ \A t \in DOMAIN Invites' : Invites'[t] = Invites[t]
  /\ \A t \in IssuedTokens : ~ValidNow(t) => ~ValidNow(t)'

C5_ExpiredIsPrunedForGood == [][C5_Step]_vars

\* two tokens were issued, one was pruned by a rejected connect, one remains
C5_Witness ==
  /\ Quiescent
  /\ Cardinality(IssuedTokens) = 2
  /\ Cardinality(DOMAIN Invites) = 1
  /\ \E c \in Clients : response[c] = 401

(***************************************************************************)
(* C6: a connect whose token is empty, unknown or expired is answered 401  *)
(* and nothing else: its socket is never accepted, no session, participant *)
(* or timeline event of it exists, and no step of its handler writes the   *)
(* room, touches the sessions or sends a message.                          *)
(***************************************************************************)
Untouched(c) ==
  /\ socket[c] = "none"
  /\ c \notin Range(Ids(sessions))
  /\ inbox[c] = <<>>
  /\ HasRoom => /\ c \notin Range(Ids(Room.participants))
                /\ \A e \in Range(Room.timeline) : e.by # c

C6_Rejected ==
  /\ \A c \in Clients : response[c] = 401 => Untouched(c)
  /\ \A h \in handlers :
       h.kind = "ws" /\ h.pc \in {"get_invites", "put_invites"} =>
         /\ h.token # <<>>
         /\ Untouched(h.id)

C6_Step ==
  /\ \A h \in handlers :
       /\ (Validating(h) /\ ~ValidNow(h.token)) =>
            /\ socket'[h.id] = "none"
            /\ \/ response'[h.id] = 401
               \/ \E g \in handlers' : g.id = h.id /\ g.pc = "put_invites"
       /\ (h.kind = "ws" /\ h.pc = "put_invites" /\ h \notin handlers') =>
            response'[h.id] = 401
  /\ (\E c \in Clients :
        \/ response[c] = 0 /\ response'[c] = 401
        \/ \E g \in handlers' : g.kind = "ws" /\ g.id = c /\ g.pc = "put_invites")
     => /\ sessions' = sessions
        /\ socket' = socket
        /\ storage'.room = storage.room
        /\ inbox' = inbox
        /\ lastBroadcast' = lastBroadcast

C7_Step ==
  lastBroadcast' # lastBroadcast =>
    LET b == lastBroadcast'
        K == Len(sessions)
    IN /\ Len(b.attempts) = K
       /\ \A i \in 1..K : /\ b.attempts[i].to = sessions[i].id
                          /\ b.attempts[i].ok <=> socket[sessions[i].id] = "open"
       /\ \A i, j \in 1..K : i # j => b.attempts[i].to # b.attempts[j].to
       /\ \A c \in Clients :
            inbox'[c] =
              IF \E i \in 1..K : b.attempts[i].to = c /\ b.attempts[i].ok
                THEN Append(inbox[c], b.message)
                ELSE inbox[c]
       /\ \A h \in handlers' : h.id # b.by
       /\ b.cause = "join" => response'[b.by] = 101

C7_BroadcastIsBestEffort == [][C7_Step]_vars

\* a broadcast whose first send threw and whose second send was delivered
C7_Witness ==
  /\ lastBroadcast.no > 0
  /\ Len(lastBroadcast.attempts) >= 2
  /\ ~lastBroadcast.attempts[1].ok
  /\ lastBroadcast.attempts[2].ok
  /\ inbox[lastBroadcast.attempts[2].to] # <<>>

(***************************************************************************)
(* C8: every set_focus frame of a connected session reaches the put of     *)
(* _setFocus.  The focus put has type "text" exactly when the payload      *)
(* carries the type "text" and "question" otherwise, a content that is the *)
(* trimmed content supplied cut to 4000 characters, and the session id of  *)
(* the sender as author.                                                   *)
(***************************************************************************)
Supplied(msg) == Trim(IF msg.payload /\ msg.content # Null THEN msg.content ELSE <<>>)

C8_Step ==
  \A h \in handlers :
    /\ (h.kind = "message" /\ h.pc = "focus_get" /\ h \notin handlers') =>
         \E g \in handlers' :
           g.kind = "message" /\ g.pc = "focus_put" /\ g.no = h.no /\ g.msg = h.msg
    /\ (h.kind = "message" /\ h.pc = "focus_put" /\ h \notin handlers') =>
         LET f == storage'.room[1].focus
         IN /\ f.type \in {"text", "question"}
            /\ f.type = "text" <=> (h.msg.payload /\ h.msg.type = "text")
            /\ StrLen(f.content) <= 4000
            /\ IF StrLen(Supplied(h.msg)) <= 4000
                 THEN f.content = Supplied(h.msg)
                 ELSE StrLen(f.content) = 4000
            /\ f.author = h.id
            /\ h.id \in Range(Ids(sessions))

C8_SetFocusIsNormalised == [][C8_Step]_vars

\* a type that is neither text nor question was recorded as a question, and
\* a content of 4001 characters was recorded cut to 4000
C8_Witness ==
  /\ HasRoom
  /\ Room.focus.type = "question"
  /\ Room.focus.content = Str("b", 2)
  /\ Room.focus.author \in Clients
  /\ \E h \in handlers :
       /\ h.kind = "message" /\ h.pc = "focus_put"
       /\ h.room.focus.type = "text"
       /\ StrLen(h.room.focus.content) = 4000

(***************************************************************************)
(* C9: the focus message a set_focus handler broadcasts carries the focus  *)
(* that this handler has put, with the sender's session id as author, and  *)
(* a send is tried to every session in the hub at that moment.             *)
(***************************************************************************)
C9_Step ==
  \A h \in handlers :
    (h.kind = "message" /\ h.pc = "getfocus_get" /\ h \notin handlers') =>
      LET b == lastBroadcast'
      IN /\ b.no = lastBroadcast.no + 1
         /\ b.by = h.id
         /\ b.message.kind = "focus"
         /\ b.message.payload = h.wrote
         /\ b.message.payload.author = h.id
         /\ Ids(sessions) = [i \in 1..Len(b.attempts) |-> b.attempts[i].to]

Registered(c) == c \in Range(Ids(sessions))
Persisted(c) ==
  /\ HasRoom
  /\ c \in Range(Ids(Room.participants))
  /\ EventsOf("join", c) # {}
Lists(message, c) ==
  /\ message.kind = "presence"
  /\ c \in Range(Ids(message.payload.participants))

C10_Order ==
  /\ \A h \in handlers :
       h.kind = "ws" =>
         /\ h.pc \in {"add_get", "add_put"} =>
              /\ Registered(h.id) /\ socket[h.id] = "open"
              /\ ~Persisted(h.id)
              /\ inbox[h.id] = <<>>
         /\ h.pc = "snapshot_get" =>
              /\ Registered(h.id) /\ Persisted(h.id)
              /\ inbox[h.id] = <<>>
         /\ h.pc = "presence_get" =>
              /\ Registered(h.id) /\ Persisted(h.id)
              /\ Len(inbox[h.id]) = 1
              /\ Lists(inbox[h.id][1], h.id)
         /\ h.pc \in {"add_get", "add_put", "snapshot_get", "presence_get"} =>
              /\ response[h.id] = 0
              /\ lastBroadcast.no > 0 => lastBroadcast.by # h.id
  /\ \A c \in Clients :
       response[c] = 101 =>
         /\ Len(inbox[c]) >= 2
         /\ Lists(inbox[c][1], c)
         /\ Lists(inbox[c][2], c)

C10_Step ==
  \A h \in handlers :
    (h.kind = "ws" /\ h.pc = "presence_get" /\ h \notin handlers') =>
      /\ response'[h.id] = 101
      /\ lastBroadcast'.by = h.id
      /\ Lists(lastBroadcast'.message, h.id)
      /\ inbox'[h.id] = Append(inbox[h.id], lastBroadcast'.message)
      /\ \A i \in 1..Len(sessions) :
           socket[sessions[i].id] = "open" =>
             inbox'[sessions[i].id] =
               Append(inbox[sessions[i].id], lastBroadcast'.message)

C10_ConnectOrder == [][C10_Step]_vars /\ []C10_Order

\* the second connect is done while the first session is open: the first
\* has received the presence that lists the second
C10_Witness ==
  /\ response[1] = 101 /\ socket[1] = "open"
  /\ response[2] = 101
  /\ lastBroadcast.no > 0 /\ lastBroadcast.by = 2
  /\ Len(inbox[2]) = 2
  /\ Len(inbox[1]) = 3
  /\ Lists(inbox[1][3], 2)

\* C10 as stated: the broadcast of a connect is received by every session
\* that was in the hub before it
C10_EveryRegisteredReceives ==
  (lastBroadcast.no > 0 /\ lastBroadcast.cause = "join") =>
    \A i \in 1..Len(lastBroadcast.attempts) : lastBroadcast.attempts[i].ok

(***************************************************************************)
(* C11: a close handler goes through three positions in this order: the    *)
(* session is out of the hub; the participant is out of the stored roster  *)
(* and its leave event is in the timeline; the presence is broadcast.  The *)
(* roster broadcast does not hold the departed participant, a send is      *)
(* tried to every session that remains in the hub, and from the start of   *)
(* the handler on nothing is sent to the departed socket.                  *)
(***************************************************************************)
C11_Order ==
  \A h \in handlers :
    h.kind = "close" =>
      /\ ~Registered(h.id)
      /\ socket[h.id] = "gone"
      /\ h.pc \in {"remove_get", "remove_put"} =>
           /\ h.id \in Range(Ids(Room.participants))
           /\ EventsOf("leave", h.id) = {}
      /\ h.pc = "left_get" =>
           /\ h.id \notin Range(Ids(Room.participants))
           /\ Cardinality(EventsOf("leave", h.id)) = 1
      /\ lastBroadcast.no > 0 =>
           ~(lastBroadcast.by = h.id /\ lastBroadcast.cause = "leave")

C11_Step ==
  /\ \A h \in handlers :
       (h.kind = "close" /\ h.pc = "left_get" /\ h \notin handlers') =>
         LET b == lastBroadcast'
         IN /\ b.no = lastBroadcast.no + 1
            /\ b.by = h.id /\ b.cause = "leave"
            /\ b.message.kind = "presence"
            /\ b.message.payload.participants = Room.participants
            /\ h.id \notin Range(Ids(b.message.payload.participants))
            /\ Ids(sessions) = [i \in 1..Len(b.attempts) |-> b.attempts[i].to]
  /\ \A c \in Clients : socket[c] = "gone" => inbox'[c] = inbox[c]

C11_DisconnectOrder == [][C11_Step]_vars /\ []C11_Order

\* the second of three sessions has left: its leave was broadcast to the
\* other two, and it has received nothing since
C11_Witness ==
  /\ Quiescent
  /\ socket[2] = "gone"
  /\ lastBroadcast.no > 0
  /\ lastBroadcast.by = 2 /\ lastBroadcast.cause = "leave"
  /\ [i \in 1..Len(lastBroadcast.attempts) |-> lastBroadcast.attempts[i].to]
       = <<1, 3>>
  /\ Len(inbox[1]) = 5

(***************************************************************************)
(* C12: a leave frame makes the server close the socket with code 1000 and *)
(* an error event with code 1011, and neither does anything else: the hub, *)
(* the storage and the inboxes are as before and no handler is started.    *)
(* The close event that follows does the cleanup: the session is out of    *)
(* the hub, the participant out of the stored roster with exactly one      *)
(* leave event, and the presence is broadcast.                             *)
(***************************************************************************)
ServerClosed(c) == socket[c] \in {"closed1000", "closed1011"}

Cleaned(c) ==
  /\ socket[c] = "gone"
  /\ ~Registered(c)
  /\ HasRoom
  /\ c \notin Range(Ids(Room.participants))
  /\ Cardinality(EventsOf("leave", c)) = 1
  /\ lastBroadcast.no > 0
  /\ lastBroadcast.by = c /\ lastBroadcast.cause = "leave"
  /\ lastBroadcast.message.kind = "presence"

C12_Step ==
  \A c \in Clients :
    (~ServerClosed(c) /\ ServerClosed(c)') =>
      /\ socket[c] = "open"
      /\ socket'[c] = "closed1000" <=> counters'.messages = counters.messages + 1
      /\ socket'[c] = "closed1011" <=> counters'.messages = counters.messages
      /\ UNCHANGED <<storage, sessions, handlers, inbox, lastBroadcast>>

C12_OneLeaveEvent ==
  HasRoom => \A c \in Clients : Cardinality(EventsOf("leave", c)) <= 1

C12_LeaveAndErrorConverge ==
  /\ [][C12_Step]_vars
  /\ []C12_OneLeaveEvent
  /\ \A c \in Clients : ServerClosed(c) ~> Cleaned(c)

\* the only session there is has sent a leave frame and is cleaned up
C12_Witness ==
  /\ Joined = {1}
  /\ counters.messages = 1
  /\ Cleaned(1)

(***************************************************************************)
(* C13: a mutation whose put rejects leaves nothing behind: a connect that *)
(* ended that way has no session in the hub, no participant, no timeline   *)
(* event and has been sent nothing, and whenever no handler is in flight   *)
(* the hub and the stored roster hold the same ids.                        *)
(***************************************************************************)
C13_FailedPutLeavesNoTrace ==
  /\ \A c \in Clients :
       response[c] = 500 =>
         /\ ~Registered(c)
         /\ inbox[c] = <<>>
         /\ HasRoom => /\ c \notin Range(Ids(Room.participants))
                       /\ \A e \in Range(Room.timeline) : e.by # c
  /\ (Quiescent /\ HasRoom) =>
       Range(Ids(sessions)) = Range(Ids(Room.participants))

(***************************************************************************)
(* C14: the room /init puts and the room _getRoom builds when the storage  *)
(* has none are the same room for the same instant: startedAt the instant  *)
(* of creation, a question focus with empty content, author and            *)
(* authorName and ts = startedAt, no participants, and a timeline of one   *)
(* room_started event by nobody.  A handler that reads the invites treats  *)
(* the record /init put (empty) and the record that was never put (absent) *)
(* alike: an invite is added to the empty set, a connect is answered 401.  *)
(***************************************************************************)
IsFresh(room, t) ==
  /\ DOMAIN room = {"startedAt", "focus", "participants", "timeline"}
  /\ room.startedAt = t
  /\ room.focus.type = "question"
  /\ room.focus.content = <<>>
  /\ room.focus.author = NoId
  /\ room.focus.authorName = <<>>
  /\ room.focus.ts = t
  /\ room.participants = <<>>
  /\ Len(room.timeline) = 1
  /\ room.timeline[1].kind = "room_started"
  /\ room.timeline[1].by = NoId
  /\ room.timeline[1].ts = t

C14_Step ==
  /\ (~HasRoom /\ HasRoom') =>
       /\ Room'.startedAt <= now
       /\ IsFresh(Room', Room'.startedAt)
       /\ handlers = {} =>
            /\ IsFresh(Room', now)
            /\ Room' = FreshRoom(now)
            /\ InvitesOr(storage'.invites) = InvitesOr(storage.invites)
  /\ \A g \in handlers' \ handlers :
       (g.pc \in RoomPcs /\ g.fresh # Undefined) =>
         /\ IsFresh(g.fresh[1], now)
         /\ g.fresh[1] = InitialRoom(now)
  /\ \A h \in handlers :
       (h.pc = "get_invites" /\ h \notin handlers'
          /\ storage.invites \in {Undefined, Some(EmptyInvites)}) =>
         IF h.kind = "invite"
           THEN \E g \in handlers' :
                  /\ g.kind = "invite" /\ g.pc = "put_invites"
                  /\ DOMAIN g.invites = {h.token}
                  /\ g.invites[h.token] =
                       [createdAt |-> now, ttlMs |-> INVITE_TTL_MS]
           ELSE /\ response'[h.id] = 401
                /\ socket'[h.id] = "none"
                /\ storage' = storage

C14_CreatePathsAgree == [][C14_Step]_vars

\* a room that its first connect created, later than the invite it came
\* with, and that has taken the join
C14_Witness ==
  /\ HasRoom
  /\ Room.startedAt > 0
  /\ Len(Room.participants) = 1
  /\ \E t \in DOMAIN Invites : Invites[t].createdAt < Room.startedAt

\* a room that /init created, later than the clock's start
C14_WitnessInit ==
  /\ HasRoom
  /\ Room.startedAt > 0
  /\ storage.invites = Some(EmptyInvites)
  /\ counters.invites = 0

(***************************************************************************)
(* C15: the expiresAt an invite response carries is the instant at which   *)
(* the token expires: it is createdAt + ttlMs of the stored entry, and as  *)
(* long as the entry is stored the token passes the age test exactly at    *)
(* the instants now <= expiresAt.                                          *)
(***************************************************************************)
C15_ExpiresAtIsExpiry ==
  \A i \in issued :
    i.token \in DOMAIN Invites =>
      /\ i.expiresAt = Invites[i.token].createdAt + Invites[i.token].ttlMs
      /\ ValidNow(i.token) <=> now <= i.expiresAt

(***************************************************************************)
(* C16: a frame that cannot be parsed, has no kind, or has a kind other    *)
(* than set_focus and leave starts no handler and changes nothing: the     *)
(* stored room and invites, the hub, the sockets and every inbox are as    *)
(* before, so the session that sent it is still registered on an open      *)
(* socket and its next set_focus or leave is taken.                        *)
(***************************************************************************)
Listening(c) == socket[c] = "open" /\ response[c] = 101 /\ Registered(c)

C16_Step ==
  (counters'.messages = counters.messages + 1 /\ handlers' = handlers) =>
    /\ UNCHANGED <<storage, sessions, socket, inbox, lastBroadcast, response>>
    /\ \A c \in Clients : Listening(c) => Listening(c)'

C16_DroppedFrameChangesNothing == [][C16_Step]_vars

\* the only session has sent two frames: one was dropped and one set the
\* focus
C16_Witness ==
  /\ Quiescent
  /\ Joined = {1}
  /\ counters.messages = 2
  /\ Cardinality(EventsOf("set_focus", 1)) = 1
  /\ Len(Room.timeline) = 3
  /\ Len(inbox[1]) = 3

(***************************************************************************)
(* C17: once the room is stored, no step takes it away, changes its        *)
(* startedAt, or changes or drops an event of its timeline: the timeline   *)
(* before a step is a prefix of the timeline after it.                     *)
(***************************************************************************)
IsPrefix(p, q) == Len(p) <= Len(q) /\ SubSeq(q, 1, Len(p)) = p

C17_Step ==
  HasRoom =>
    /\ HasRoom'
    /\ Room'.startedAt = Room.startedAt
    /\ IsPrefix(Room.timeline, Room'.timeline)

C18_Step ==
  /\ counters'.losses = counters.losses + 1 =>
       /\ sessions' = <<>>
       /\ handlers' = {}
       /\ \A c \in Clients : socket'[c] \notin Connected
       /\ storage' = storage
       /\ \A t \in IssuedTokens : ValidNow(t) <=> ValidNow(t)'
  /\ (counters.losses > 0 /\ counters'.losses = counters.losses) =>
       \A h \in handlers :
         Validating(h) => (socket'[h.id] = "open" <=> ValidNow(h.token))

C18_LossKeepsStorage == [][C18_Step]_vars

\* the first session was lost with the instance; the token it had come
\* with has let a second session in, and the roster still holds both
C18_Witness ==
  /\ Quiescent
  /\ counters.losses = 1
  /\ counters.invites = 1
  /\ socket[1] = "lost"
  /\ socket[2] = "open"
  /\ Ids(sessions) = <<2>>
  /\ HasRoom
  /\ Ids(Room.participants) = <<1, 2>>

(***************************************************************************)
(* C19: whenever no handler is in flight, the ids of the stored            *)
(* participants are the ids of the sessions in the hub, no id is there     *)
(* twice, and every participant has the name and role of its session.      *)
(***************************************************************************)
Distinct(q) == \A i, j \in 1..Len(q) : i # j => q[i] # q[j]

C19_HubAndRosterAgree ==
  Quiescent =>
    IF HasRoom
      THEN /\ Range(Ids(Room.participants)) = Range(Ids(sessions))
           /\ Distinct(Ids(Room.participants))
           /\ Distinct(Ids(sessions))
           /\ \A i \in 1..Len(Room.participants) :
                \E j \in 1..Len(sessions) :
                  LET p == Room.participants[i]
                      x == sessions[j]
                  IN x.id = p.id /\ x.name = p.name /\ x.role = p.role
      ELSE sessions = <<>>

\* two sessions are in the hub after a third has left; the name is the
\* default and the role is cut to 20 characters in both places
C19_Witness ==
  /\ Quiescent
  /\ HasRoom
  /\ Len(sessions) = 2
  /\ Cardinality(Departed) = 1
  /\ \A i \in 1..2 :
       /\ Room.participants[i].name = Gast
       /\ Room.participants[i].role = Str("H", 20)
       /\ sessions[i].role = Str("H", 20)

(***************************************************************************)
(* C20: whenever no handler is in flight, every session in the hub whose   *)
(* socket is open (no send to it has thrown) has received a presence, and  *)
(* the participants of the last presence it received are the stored        *)
(* participants.                                                           *)
(***************************************************************************)
PresenceAt(c) == {i \in 1..Len(inbox[c]) : inbox[c][i].kind = "presence"}
LastPresence(c) ==
  inbox[c][CHOOSE i \in PresenceAt(c) : \A j \in PresenceAt(c) : j <= i]

====
